---- MODULE Spec2Model ----
(***************************************************************************)
(* Model of the allocation engine of src/bandwidth_app.py: the four        *)
(* allocators (greedy_allocation, random_allocation, dynamic_allocation,   *)
(* backtracking_allocation) and the comparator auto_select, which calls    *)
(* them in that source order on one (total_bandwidth, demands) pair.       *)
(* Loops and the recursion of backtrack() are unrolled into one action per *)
(* iteration / call step, so that the intermediate states are visible.     *)
(***************************************************************************)
EXTENDS Integers, Sequences, FiniteSets, TLC

\* ------------------------------------------------------------------ bounds
MaxCap == 4
MaxDemand == 3
MaxLen == 3

VARIABLES
    total_bandwidth,  \* argument of every allocator
    demands,          \* argument of every allocator (a Python list)
    pc,               \* which function of auto_select's body is running
    allocation,       \* local `allocation` of the running allocator
    remaining,        \* local `remaining` of greedy / random
    i,                \* loop variable of the running allocator
    w,                \* local `w` of dynamic_allocation
    dp,               \* local table `dp` of dynamic_allocation
    result,           \* local `result` of dynamic_allocation
    best_sum,         \* nonlocal of backtrack()
    best_alloc,       \* nonlocal of backtrack()
    stack,            \* call stack of backtrack(): frames, innermost last
    allocs,           \* [0] of each allocator's returned pair, by name
    results,          \* the dict `results`: <<key, value>> in insertion order
    best_algo,        \* auto_select's best_algo
    best_val          \* auto_select's results[best_algo]

vars == <<total_bandwidth, demands, pc, allocation, remaining, i, w, dp,
          result, best_sum, best_alloc, stack, allocs, results, best_algo,
          best_val>>

\* ------------------------------------------------------- Python primitives
Min(a, b) == IF a <= b THEN a ELSE b

Max(a, b) == IF a >= b THEN a ELSE b

RECURSIVE Sum(_)
Sum(s) == IF s = <<>> THEN 0 ELSE Head(s) + Sum(Tail(s))

\* list[j] with Python's index rule: 0-based, negative j counts from the end
InRange(list, j) == -Len(list) <= j /\ j < Len(list)

At(list, j) == IF j >= 0 THEN list[j + 1] ELSE list[Len(list) + j + 1]

\* [0] * k
ZeroRow(k) == [c \in 1..k |-> 0]

RECURSIVE InsertDesc(_, _)
InsertDesc(x, s) ==
    IF s = <<>> THEN <<x>>
    ELSE IF x > Head(s) THEN <<x>> \o s
    ELSE <<Head(s)>> \o InsertDesc(x, Tail(s))

\* mutant: the demands are served in input order
Unsorted(s) == s

\* sorted(demands, reverse=True)
RECURSIVE SortedDesc(_)
SortedDesc(s) ==
    IF s = <<>> THEN <<>>
    ELSE InsertDesc(s[Len(s)], SortedDesc(SubSeq(s, 1, Len(s) - 1)))

\* the dict `results`
Keys(d) == [j \in 1..Len(d) |-> d[j][1]]

Has(d, key) == \E j \in 1..Len(d) : d[j][1] = key

Get(d, key) == d[CHOOSE j \in 1..Len(d) : d[j][1] = key][2]

\* ------------------------------------------------------------------ inputs
Lists(lo, hi) == UNION {[1..n -> lo..hi] : n \in 0..MaxLen}

InitWith(caps, lists) ==
    /\ total_bandwidth \in caps
    /\ demands \in lists
    /\ pc = "greedy"
    /\ allocation = <<>>
    /\ remaining = total_bandwidth
    /\ i = 0
    /\ w = 0
    /\ dp = <<>>
    /\ result = 0
    /\ best_sum = 0
    /\ best_alloc = <<>>
    /\ stack = <<>>
    /\ allocs = <<>>
    /\ results = <<>>
    /\ best_algo = "none"
    /\ best_val = 0

\* requests that honour the input contract: capacity >= 0, demands > 0
Init == InitWith(0..MaxCap, Lists(1, MaxDemand))

\* any request a caller can pass: the functions take them unchecked
InitAny == InitWith(-1..MaxCap, Lists(-1, MaxDemand))

\* -------------------------------------------------------- greedy_allocation
\* mutant: the whole demand is granted, whatever is left
GreedyGrantWhole(d, rem) == d

\* `alloc = min(d, remaining)`
GreedyGrant(d, rem) == Min(d, rem)

\* mutant: what is left is returned in place of what was used
GreedyTotalIsRemaining(tb, rem) == rem

\* `total_bandwidth - remaining`
GreedyTotal(tb, rem) == tb - rem

Rest == <<total_bandwidth, demands, best_algo, best_val>>

GreedyStep ==
    /\ pc = "greedy"
    /\ i < Len(demands)
    /\ LET d == SortedDesc(demands)[i + 1]
           alloc == GreedyGrant(d, remaining)
       IN /\ allocation' = Append(allocation, alloc)
          /\ remaining' = remaining - alloc
          /\ pc' = IF remaining - alloc <= 0 THEN "greedy_return" ELSE "greedy"
    /\ i' = i + 1
    /\ UNCHANGED <<Rest, w, dp, result, best_sum, best_alloc, stack, allocs,
                   results>>

\* return allocation, total_bandwidth - remaining; then auto_select calls
\* dynamic_allocation, whose first statements build the zero table
GreedyReturn ==
    /\ \/ pc = "greedy_return"
       \/ pc = "greedy" /\ i >= Len(demands)
    /\ allocs' = allocs @@ ("Greedy" :> allocation)
    /\ results' = Append(results,
                         <<"Greedy", GreedyTotal(total_bandwidth, remaining)>>)
    /\ dp' = [r \in 1..(Len(demands) + 1) |-> ZeroRow(total_bandwidth + 1)]
    /\ i' = 1
    /\ w' = 1
    /\ allocation' = <<>>
    /\ pc' = "dynamic_fill"
    /\ UNCHANGED <<Rest, remaining, result, best_sum, best_alloc, stack>>

\* ------------------------------------------------------- dynamic_allocation
\* mutant: a demand that fits exactly is not taken
DpCellStrict(table, row, dem, cap) ==
    IF dem < cap
    THEN Max(At(At(table, row - 1), cap),
             At(At(table, row - 1), cap - dem) + dem)
    ELSE At(At(table, row - 1), cap)

\* mutant: the take branch reads the row being filled, so a demand can be
\* taken more than once
DpCellSameRow(table, row, dem, cap) ==
    IF dem <= cap
    THEN Max(At(At(table, row - 1), cap),
             At(At(table, row), cap - dem) + dem)
    ELSE At(At(table, row - 1), cap)

\* the value the two fill loops store in dp[row][cap]; dem is demands[row-1]
DpCell(table, row, dem, cap) ==
    IF dem <= cap
    THEN Max(At(At(table, row - 1), cap),
             At(At(table, row - 1), cap - dem) + dem)
    ELSE At(At(table, row - 1), cap)

\* mutant: the walk compares with the row it is at
WalkSkipsSameRow(res, table, row, cap) == res = At(At(table, row), cap)

\* `if result == dp[i-1][w]: continue`
WalkSkips(res, table, row, cap) == res = At(At(table, row - 1), cap)

\* a list index out of range ends the call (and auto_select) with IndexError
Raise ==
    /\ pc' = "IndexError"
    /\ UNCHANGED <<Rest, allocation, remaining, i, w, dp, result, best_sum,
                   best_alloc, stack, allocs, results>>

DpFillCell ==
    /\ pc = "dynamic_fill"
    /\ i <= Len(demands)
    /\ total_bandwidth >= 1
    /\ LET dem == demands[i]
           prev == dp[i]
       IN IF dem <= w /\ ~InRange(prev, w - dem)
          THEN Raise
          ELSE /\ dp' = [dp EXCEPT ![i + 1][w + 1] = DpCell(dp, i, dem, w)]
               /\ w' = IF w < total_bandwidth THEN w + 1 ELSE 1
               /\ i' = IF w < total_bandwidth THEN i ELSE i + 1
               /\ UNCHANGED <<Rest, pc, allocation, remaining, result,
                              best_sum, best_alloc, stack, allocs, results>>

\* result = dp[n][total_bandwidth]; w = total_bandwidth; allocation = []
DpStartWalk ==
    /\ pc = "dynamic_fill"
    /\ i > Len(demands) \/ total_bandwidth < 1
    /\ LET last == dp[Len(demands) + 1]
       IN IF ~InRange(last, total_bandwidth)
          THEN Raise
          ELSE /\ result' = At(last, total_bandwidth)
               /\ w' = total_bandwidth
               /\ allocation' = <<>>
               /\ i' = Len(demands)
               /\ pc' = "dynamic_walk"
               /\ UNCHANGED <<Rest, remaining, dp, best_sum, best_alloc,
                              stack, allocs, results>>

DpWalkStep ==
    /\ pc = "dynamic_walk"
    /\ i >= 1
    /\ IF result <= 0
       THEN /\ pc' = "dynamic_return"
            /\ UNCHANGED <<Rest, allocation, remaining, i, w, dp, result,
                           best_sum, best_alloc, stack, allocs, results>>
       ELSE IF ~InRange(dp[i], w)
       THEN Raise
       ELSE /\ IF WalkSkips(result, dp, i, w)
               THEN UNCHANGED <<allocation, result, w>>
               ELSE /\ allocation' = Append(allocation, demands[i])
                    /\ result' = result - demands[i]
                    /\ w' = w - demands[i]
            /\ i' = i - 1
            /\ UNCHANGED <<Rest, pc, remaining, dp, best_sum, best_alloc,
                           stack, allocs, results>>

\* return allocation, sum(allocation); then auto_select calls
\* backtracking_allocation, which calls backtrack(0, [], 0)
DpReturn ==
    /\ \/ pc = "dynamic_return"
       \/ pc = "dynamic_walk" /\ i < 1
    /\ allocs' = allocs @@ ("Dynamic Programming" :> allocation)
    /\ results' = Append(results, <<"Dynamic Programming", Sum(allocation)>>)
    /\ best_sum' = 0
    /\ best_alloc' = <<>>
    /\ stack' = <<[i |-> 0, current |-> <<>>, total |-> 0, at |-> "enter"]>>
    /\ pc' = "backtracking"
    /\ UNCHANGED <<Rest, allocation, remaining, i, w, dp, result>>

\* -------------------------------------------------- backtracking_allocation
\* mutant: a running total equal to the capacity is pruned too
BtPrunedAtCapacity(total) == total >= total_bandwidth

\* mutant: no branch is pruned
BtNeverPruned(total) == FALSE

\* `if total > total_bandwidth: return`
BtPruned(total) == total > total_bandwidth

\* `if total > best_sum`
BtImproves(total, best) == total > best

Top == stack[Len(stack)]

Pop == SubSeq(stack, 1, Len(stack) - 1)

BtUnchanged == <<Rest, allocation, remaining, i, w, dp, result, allocs,
                 results, pc>>

\* entry of backtrack(i, current, total) up to the include call
BtEnter ==
    /\ pc = "backtracking"
    /\ stack # <<>>
    /\ Top.at = "enter"
    /\ IF BtPruned(Top.total)
       THEN /\ stack' = Pop
            /\ UNCHANGED <<best_sum, best_alloc>>
       ELSE /\ IF BtImproves(Top.total, best_sum)
               THEN /\ best_sum' = Top.total
                    /\ best_alloc' = Top.current
               ELSE UNCHANGED <<best_sum, best_alloc>>
            /\ IF Top.i = Len(demands)
               THEN stack' = Pop
               ELSE stack' = Append(
                        [stack EXCEPT ![Len(stack)].at = "included"],
                        [i |-> Top.i + 1,
                         current |-> Append(Top.current, demands[Top.i + 1]),
                         total |-> Top.total + demands[Top.i + 1],
                         at |-> "enter"])
    /\ UNCHANGED BtUnchanged

\* the include call returned: backtrack(i+1, current, total)
BtExclude ==
    /\ pc = "backtracking"
    /\ stack # <<>>
    /\ Top.at = "included"
    /\ stack' = Append(
           [stack EXCEPT ![Len(stack)].at = "excluded"],
           [i |-> Top.i + 1, current |-> Top.current, total |-> Top.total,
            at |-> "enter"])
    /\ UNCHANGED <<BtUnchanged, best_sum, best_alloc>>

\* the exclude call returned: the frame falls off the end of backtrack()
BtPop ==
    /\ pc = "backtracking"
    /\ stack # <<>>
    /\ Top.at = "excluded"
    /\ stack' = Pop
    /\ UNCHANGED <<BtUnchanged, best_sum, best_alloc>>

\* return best_alloc, best_sum; then auto_select calls random_allocation
BtReturn ==
    /\ pc = "backtracking"
    /\ stack = <<>>
    /\ allocs' = allocs @@ ("Backtracking" :> best_alloc)
    /\ results' = Append(results, <<"Backtracking", best_sum>>)
    /\ allocation' = <<>>
    /\ remaining' = total_bandwidth
    /\ i' = 0
    /\ pc' = "random"
    /\ UNCHANGED <<Rest, w, dp, result, best_sum, best_alloc, stack>>

\* -------------------------------------------------------- random_allocation
\* the values random.randint(0, remaining if remaining > 0 else 0) can return
RandomDraws(rem) == 0..(IF rem > 0 THEN rem ELSE 0)

RandomTotal(tb, rem) == tb - rem

RandomStep ==
    /\ pc = "random"
    /\ i < Len(demands)
    /\ \E alloc \in RandomDraws(remaining) :
          /\ allocation' = Append(allocation, alloc)
          /\ remaining' = remaining - alloc
          /\ pc' = IF remaining - alloc <= 0 THEN "random_return" ELSE "random"
    /\ i' = i + 1
    /\ UNCHANGED <<Rest, w, dp, result, best_sum, best_alloc, stack, allocs,
                   results>>

RandomReturn ==
    /\ \/ pc = "random_return"
       \/ pc = "random" /\ i >= Len(demands)
    /\ allocs' = allocs @@ ("Random" :> allocation)
    /\ results' = Append(results,
                         <<"Random", RandomTotal(total_bandwidth, remaining)>>)
    /\ pc' = "select"
    /\ UNCHANGED <<Rest, allocation, remaining, i, w, dp, result, best_sum,
                   best_alloc, stack>>

\* -------------------------------------------------------------- auto_select
\* mutant: a later item that ties replaces the one held
ReplacesOnTie(cand, held) == cand >= held

\* max() keeps the item it holds unless a later one compares greater
Replaces(cand, held) == cand > held

RECURSIVE MaxScan(_, _, _)
MaxScan(d, j, held) ==
    IF j > Len(d) THEN d[held][1]
    ELSE MaxScan(d, j + 1, IF Replaces(d[j][2], d[held][2]) THEN j ELSE held)

\* max(results, key=results.get)
PyMaxKey(d) == MaxScan(d, 2, 1)

Select ==
    /\ pc = "select"
    /\ best_algo' = PyMaxKey(results)
    /\ best_val' = Get(results, PyMaxKey(results))
    /\ pc' = "done"
    /\ UNCHANGED <<total_bandwidth, demands, allocation, remaining, i, w, dp,
                   result, best_sum, best_alloc, stack, allocs, results>>

Next ==
    \/ GreedyStep
    \/ GreedyReturn
    \/ DpFillCell
    \/ DpStartWalk
    \/ DpWalkStep
    \/ DpReturn
    \/ BtEnter
    \/ BtExclude
    \/ BtPop
    \/ BtReturn
    \/ RandomStep
    \/ RandomReturn
    \/ Select

Spec == Init /\ [][Next]_vars

SpecAny == InitAny /\ [][Next]_vars

\* ------------------------------------------------------------------ claims
Order == <<"Greedy", "Dynamic Programming", "Backtracking", "Random">>

Returned(name) == Has(results, name)

Total(name) == Get(results, name)

Valid == total_bandwidth >= 0 /\ \A j \in 1..Len(demands) : demands[j] > 0

\* a is built from distinct positions of list, kept in input order
RECURSIVE IsSubseq(_, _)
IsSubseq(a, list) ==
    IF a = <<>> THEN TRUE
    ELSE IF list = <<>> THEN FALSE
    ELSE IF Head(a) = Head(list) THEN IsSubseq(Tail(a), Tail(list))
    ELSE IsSubseq(a, Tail(list))

\* the sums of the sub-lists of `list`, each position used at most once
RECURSIVE SubsetSums(_)
SubsetSums(list) ==
    IF list = <<>> THEN {0}
    ELSE LET others == SubsetSums(Tail(list))
         IN others \cup {Head(list) + t : t \in others}

Reverse(list) == [j \in 1..Len(list) |-> list[Len(list) + 1 - j]]

\* the largest subset sum of `list` that does not exceed cap
Optimum(cap, list) ==
    LET feasible == {t \in SubsetSums(list) : t <= cap}
    IN CHOOSE t \in feasible : \A u \in feasible : u <= t

\* the demands rearranged into descending order
Descending(list) ==
    [j \in 1..Len(list) |->
        CHOOSE v \in {list[k] : k \in 1..Len(list)} :
            /\ Cardinality({k \in 1..Len(list) : list[k] > v}) < j
            /\ j <= Cardinality({k \in 1..Len(list) : list[k] >= v})]

\* greedy served every demand it reached in full
GreedyAllWhole ==
    \A j \in 1..Len(allocs["Greedy"]) :
        allocs["Greedy"][j] = Descending(demands)[j]

\* C1: every achieved total an allocator has returned lies in
\* 0..total_bandwidth.
TotalsWithinCapacity ==
    \A j \in 1..Len(results) :
        0 <= results[j][2] /\ results[j][2] <= total_bandwidth

TotalsWithinCapacityWitness ==
    /\ pc = "done"
    /\ Len(results) = 4
    /\ total_bandwidth > 0
    /\ Total("Greedy") = total_bandwidth
    /\ Total("Dynamic Programming") < total_bandwidth
    /\ Total("Random") > 0

\* C2: dynamic_allocation and backtracking_allocation return the same
\* achieved total.
ExactOptimizersAgree ==
    Returned("Dynamic Programming") /\ Returned("Backtracking")
        => Total("Dynamic Programming") = Total("Backtracking")

ExactOptimizersAgreeWitness ==
    /\ Returned("Dynamic Programming")
    /\ Returned("Backtracking")
    /\ Total("Backtracking") = total_bandwidth
    /\ Total("Backtracking") < Sum(demands)
    /\ Len(allocs["Backtracking"]) >= 2

\* C3 as stated: greedy's achieved total never exceeds dynamic_allocation's.
GreedyNeverBeatsOptimum ==
    Returned("Greedy") /\ Returned("Dynamic Programming")
        => Total("Greedy") <= Total("Dynamic Programming")

\* C3 amended: when every grant greedy made is a whole demand (no partial
\* grant), greedy's achieved total does not exceed dynamic_allocation's.
WholeGrantGreedyWithinOptimum ==
    Returned("Greedy") /\ Returned("Dynamic Programming") /\ GreedyAllWhole
        => Total("Greedy") <= Total("Dynamic Programming")

WholeGrantGreedyWitness ==
    /\ Returned("Greedy")
    /\ Returned("Dynamic Programming")
    /\ GreedyAllWhole
    /\ Len(allocs["Greedy"]) >= 2
    /\ Len(allocs["Greedy"]) < Len(demands)

\* C4: dynamic_allocation's total is the maximum subset sum of the demands
\* (each position used at most once) that does not exceed total_bandwidth.
DynamicIsOptimal ==
    Returned("Dynamic Programming")
        => Total("Dynamic Programming") = Optimum(total_bandwidth, demands)

DynamicIsOptimalWitness ==
    /\ Returned("Dynamic Programming")
    /\ Total("Dynamic Programming") > 0
    /\ Total("Dynamic Programming") < total_bandwidth
    /\ Total("Dynamic Programming") < Sum(demands)

\* C5: auto_select's report has exactly the keys Greedy, Dynamic
\* Programming, Backtracking, Random; the best total is the largest value of
\* the report and the best strategy is the first key, in that order, that
\* has it.
AutoSelectPicksFirstMaximum ==
    pc = "done" =>
        /\ Keys(results) = Order
        /\ \A j \in 1..4 : results[j][2] <= best_val
        /\ \E j \in 1..4 :
              /\ best_algo = Order[j]
              /\ results[j][2] = best_val
              /\ \A k \in 1..(j - 1) : results[k][2] < best_val

AutoSelectTieWitness ==
    /\ pc = "done"
    /\ best_algo = "Greedy"
    /\ best_val > 0
    /\ Total("Dynamic Programming") = best_val
    /\ Total("Random") = best_val

\* C6: a request with capacity < 0 or a demand <= 0 makes no allocator
\* return an (allocation, total) pair.
InvalidInputIsRejected == ~Valid => results = <<>>

\* C7: with no demands every allocator returns the empty allocation and
\* total 0.
EmptyDemandsYieldNothing ==
    demands = <<>> =>
        \A j \in 1..Len(results) :
            results[j][2] = 0 /\ allocs[results[j][1]] = <<>>

EmptyDemandsWitness ==
    /\ demands = <<>>
    /\ total_bandwidth > 0
    /\ pc = "done"
    /\ Len(results) = 4

\* C8: during the backward walk of dynamic_allocation w stays in
\* 0..total_bandwidth and result equals dp[i][w] for the row i the walk is
\* at; the returned allocation takes each position of the demands at most
\* once and sums to dp[n][total_bandwidth].
DynamicWalkInvariant ==
    /\ pc \in {"dynamic_walk", "dynamic_return"} =>
          /\ 0 <= w
          /\ w <= total_bandwidth
          /\ result = dp[i + 1][w + 1]
    /\ Returned("Dynamic Programming") =>
          /\ IsSubseq(Reverse(allocs["Dynamic Programming"]), demands)
          /\ Sum(allocs["Dynamic Programming"])
                 = dp[Len(demands) + 1][total_bandwidth + 1]

DynamicWalkWitness ==
    /\ pc = "dynamic_walk"
    /\ i = 1
    /\ Len(demands) = 3
    /\ Len(allocation) = 1
    /\ result > 0

\* C9: throughout the backtracking search best_sum <= total_bandwidth and
\* best_alloc is a sub-list of the demands, in input order, summing to
\* best_sum; best_sum never decreases and changes only to a running total
\* that is within total_bandwidth and strictly greater than it.
BtBestOk ==
    /\ best_sum <= total_bandwidth
    /\ IsSubseq(best_alloc, demands)
    /\ Sum(best_alloc) = best_sum

BtBestStep ==
    best_sum' # best_sum =>
        /\ pc = "backtracking"
        /\ stack # <<>>
        /\ Top.total <= total_bandwidth
        /\ Top.total > best_sum
        /\ best_sum' = Top.total
        /\ best_alloc' = Top.current

BacktrackingBestSoFar == [](BtBestOk) /\ [][BtBestStep]_vars

BacktrackingBestWitness ==
    /\ pc = "backtracking"
    /\ Len(stack) >= 2
    /\ best_sum > 0
    /\ Len(best_alloc) = 2
    /\ best_sum < total_bandwidth

\* C10: greedy's total is the sum of its allocation list and equals
\* min(total_bandwidth, sum of the demands); every entry but the last is a
\* whole demand, taken in descending order, and the last is at most its
\* demand.
GreedyGrantsShape ==
    Returned("Greedy") =>
        LET a == allocs["Greedy"]
            s == Descending(demands)
        IN /\ Total("Greedy") = Sum(a)
           /\ Total("Greedy") = Min(total_bandwidth, Sum(demands))
           /\ Len(a) <= Len(s)
           /\ \A j \in 1..(Len(a) - 1) : a[j] = s[j]
           /\ Len(a) > 0 => a[Len(a)] <= s[Len(a)]

GreedyPartialLastWitness ==
    /\ Returned("Greedy")
    /\ Len(allocs["Greedy"]) >= 2
    /\ allocs["Greedy"][Len(allocs["Greedy"])] > 0
    /\ allocs["Greedy"][Len(allocs["Greedy"])]
           < Descending(demands)[Len(allocs["Greedy"])]
    /\ demands # Descending(demands)

====
